---- MODULE Spec2Model ----
(***************************************************************************)
(* A model of src/main.py: the Windy Gridworld (Position, Move, SouthWind, *)
(* WestWind, Board), the helpers max_arg and print_policy, and the Sarsa   *)
(* control loop generate_strategy.                                         *)
(*                                                                         *)
(* Representation.                                                         *)
(*   Position(x, y)  is the pair <<x, y>>   (Position.coords)              *)
(*   Move(dx, dy)    is the pair <<dx, dy>> (Move._vector)                 *)
(*   a dict          is a function; its key set is its DOMAIN              *)
(*   a list          is a sequence; Python index i is TLA+ index i + 1     *)
(*   a number held in Q, alpha, gamma, epsilon or drawn by random.random() *)
(*                   is an exact fraction <<n, d>> in lowest terms, d > 0. *)
(*                   The parameters are drawn from dyadic fractions, for   *)
(*                   which Python's float arithmetic is exact as well.     *)
(*   a call that may raise returns [exc |-> name, value |-> v]; exc is     *)
(*                   "none" when the call returns v.                       *)
(***************************************************************************)
EXTENDS Integers, Sequences, FiniteSets, TLC

VARIABLES
    board,            \* the Board: [max_x, max_y, wind]
    start_pos,        \* generate_strategy's start_pos
    goal_pos,         \* generate_strategy's goal_pos
    total_steps,      \* generate_strategy's total_steps
    alpha,            \* the learning speed
    gamma,            \* the discount
    epsilon,          \* the exploration rate
    move_symbol_map,  \* the insertion-ordered dict Move -> symbol: a sequence of <<move, symbol>>
    Q,                \* the action-value store: a function on the keys <<pos, move>> it holds
    pos,              \* the agent's position at the start of the next step
    step,             \* the number of loop iterations completed (_step of the next one)
    pc,               \* "loop" | "done" | the name of the exception that ended the run
    chosen_move,      \* the local chosen_move of the last iteration
    new_pos,          \* the local new_pos of the last iteration that assigned it
    new_pos_move,     \* the local new_pos_move of the last iteration that assigned it
    new_pos_branch,   \* how new_pos_move was last selected: "none" | "explore" | "greedy"
    branch,           \* the branch the last iteration took: "none" | "explore" | "exploit"
    stdout,           \* what print() has written, one element per call
    call              \* the last call of a function applied on its own: its arguments and result

vars == <<board, start_pos, goal_pos, total_steps, alpha, gamma, epsilon, move_symbol_map,
          Q, pos, step, pc, chosen_move, new_pos, new_pos_move, new_pos_branch, branch,
          stdout, call>>

----------------------------------------------------------------------------
(* Bounds of the explored inputs. *)

MaxX == 1          \* boards have max_x in 0..MaxX
MaxY == 1          \* boards have max_y in 0..MaxY
MaxSpeed == 2      \* wind speeds are in -MaxSpeed..MaxSpeed
MaxDelta == 1      \* displacements given to Board.move alone have components in -MaxDelta..MaxDelta
MaxSteps == 2      \* generate_strategy is given total_steps in 0..MaxSteps
MaxCalls == 3      \* the store alone is given at most MaxCalls lookups and writes
MaxEntries == 2    \* a store given to the selections alone holds at most MaxEntries entries
MaxLen == 3        \* max_arg alone is given lists of at most MaxLen values

----------------------------------------------------------------------------
(* Results of calls that may raise. *)

Ret(v) == [exc |-> "none", value |-> v]
Raise(e) == [exc |-> e, value |-> <<>>]

(* A dict method returns [dict |-> the dict after the call, value |-> what the call returns]. *)

EmptyDict == <<>>

(* Mutant: a lookup with a default stores the default under an absent key. *)
dict_get_inserting(d, k, default) ==
    [dict |-> IF k \in DOMAIN d THEN d ELSE d @@ (k :> default),
     value |-> IF k \in DOMAIN d THEN d[k] ELSE default]

(* d.get(k, default): the dict is not changed. *)
dict_get(d, k, default) ==
    [dict |-> d, value |-> IF k \in DOMAIN d THEN d[k] ELSE default]

(* Mutant: the entry is set to the default whether or not the key is there. *)
dict_setdefault_reset(d, k, default) ==
    [dict |-> [x \in DOMAIN d \cup {k} |-> IF x = k THEN default ELSE d[x]],
     value |-> default]

(* d.setdefault(k, default): an absent key is inserted with the default. *)
dict_setdefault(d, k, default) ==
    [dict |-> IF k \in DOMAIN d THEN d ELSE d @@ (k :> default),
     value |-> IF k \in DOMAIN d THEN d[k] ELSE default]

(* list(d.keys()) of an insertion-ordered dict held as a sequence of <<key, value>>. *)
dict_keys(items) == [i \in 1..Len(items) |-> items[i][1]]

----------------------------------------------------------------------------
(* Numbers: exact fractions <<n, d>>, d > 0, in lowest terms. *)

Abs(n) == IF n < 0 THEN -n ELSE n

RECURSIVE GCD(_, _)
GCD(a, b) == IF b = 0 THEN a ELSE GCD(b, a % b)

Rat(n, d) ==
    LET g == GCD(Abs(n), Abs(d))
        s == IF d < 0 THEN -1 ELSE 1
    IN  <<(s * n) \div g, (s * d) \div g>>

Num(n) == <<n, 1>>

RatAdd(a, b) == Rat(a[1] * b[2] + b[1] * a[2], a[2] * b[2])
RatSub(a, b) == Rat(a[1] * b[2] - b[1] * a[2], a[2] * b[2])
RatMul(a, b) == Rat(a[1] * b[1], a[2] * b[2])
RatLess(a, b) == a[1] * b[2] < b[1] * a[2]
RatGreater(a, b) == a[1] * b[2] > b[1] * a[2]

----------------------------------------------------------------------------
(* Position and Move. *)

Position(x, y) == <<x, y>>
Move(delta_x, delta_y) == <<delta_x, delta_y>>

Position_move(position, move) == Position(position[1] + move[1], position[2] + move[2])

Position_clone(position) == Position(position[1], position[2])

Move_add(self, other) == Move(self[1] + other[1], self[2] + other[2])

----------------------------------------------------------------------------
(* The winds. A wind is [kind |-> "SouthWind" | "WestWind", wind_speed |-> dict]. *)

SouthWind(wind_speed) == [kind |-> "SouthWind", wind_speed |-> wind_speed]
WestWind(wind_speed) == [kind |-> "WestWind", wind_speed |-> wind_speed]

SouthWind_blow(self, position) == Move(0, dict_get(self.wind_speed, position[1], 0).value)

WestWind_blow(self, position) == Move(dict_get(self.wind_speed, position[2], 0).value, 0)

(* self.wind.blow(position): dispatch on the wind's class. *)
Wind_blow(wind, position) ==
    IF wind.kind = "SouthWind" THEN SouthWind_blow(wind, position)
                               ELSE WestWind_blow(wind, position)

----------------------------------------------------------------------------
(* The board. *)

Board(width, height, wind) == [max_x |-> width - 1, max_y |-> height - 1, wind |-> wind]

Board_dimensions(self) == <<self.max_x, self.max_y>>

Min2(a, b) == IF a <= b THEN a ELSE b
Max2(a, b) == IF a >= b THEN a ELSE b

(* Mutant: the walls at max_x and max_y are forgotten. *)
Board_restrict_to_board_nowall(self, position) ==
    Position(Max2(0, position[1]), Max2(0, position[2]))

Board_restrict_to_board(self, position) ==
    Position(Min2(self.max_x, Max2(0, position[1])),
             Min2(self.max_y, Max2(0, position[2])))

(* Mutant: x = max_x is taken to be off the board. *)
Board_check_position_strict(self, position) ==
    \/ position[1] < 0
    \/ position[1] >= self.max_x
    \/ position[2] < 0
    \/ position[2] > self.max_y

(* TRUE when _check_position raises InvalidPositionException. *)
Board_check_position(self, position) ==
    \/ position[1] < 0
    \/ position[1] > self.max_x
    \/ position[2] < 0
    \/ position[2] > self.max_y

(* Mutant: the wind blows where the agent's displacement leads. *)
Board_actual_move_after(self, position, agent_move) ==
    Move_add(agent_move, Wind_blow(self.wind, Position_move(position, agent_move)))

(* The wind's contribution: the position the wind is evaluated at is the input position. *)
Board_actual_move(self, position, agent_move) ==
    Move_add(agent_move, Wind_blow(self.wind, position))

Board_move(self, position, agent_move) ==
    IF Board_check_position(self, position)
    THEN Raise("InvalidPositionException")
    ELSE Ret(Board_restrict_to_board(self,
                 Position_move(position, Board_actual_move(self, position, agent_move))))

----------------------------------------------------------------------------
(* max_arg: the index (from 0) of the highest value, the lowest such index on ties. *)

(* Mutant: a later value that equals the highest so far takes its place. *)
max_arg_better_or_equal(val, max_value) == ~RatLess(val, max_value)

(* if val > max_value *)
max_arg_better(val, max_value) == RatGreater(val, max_value)

RECURSIVE max_arg_loop(_, _, _, _)
max_arg_loop(array, idx, max_index, max_value) ==
    IF idx >= Len(array)
    THEN max_index
    ELSE IF max_arg_better(array[idx + 1], max_value)
         THEN max_arg_loop(array, idx + 1, idx, array[idx + 1])
         ELSE max_arg_loop(array, idx + 1, max_index, max_value)

(* array[0] of an empty list raises IndexError. *)
max_arg(array) ==
    IF Len(array) = 0
    THEN Raise("IndexError")
    ELSE Ret(max_arg_loop(array, 0, 0, array[1]))

(* The builtin max of a non-empty list: the first of the greatest elements. *)
RECURSIVE builtin_max_loop(_, _, _)
builtin_max_loop(array, idx, best) ==
    IF idx > Len(array)
    THEN best
    ELSE builtin_max_loop(array, idx + 1,
                          IF RatGreater(array[idx], best) THEN array[idx] ELSE best)

builtin_max(array) ==
    IF Len(array) = 0
    THEN Raise("ValueError")
    ELSE Ret(builtin_max_loop(array, 2, array[1]))

----------------------------------------------------------------------------
(* The action-value store. *)

default_action_value == Num(1)

(* [Q.setdefault((position, m), default_action_value()) for m in moves]:           *)
(* [dict |-> the store after the lookups, value |-> the list of the values read].   *)
RECURSIVE setdefault_each(_, _, _, _)
setdefault_each(store, position, moves, acc) ==
    IF moves = <<>>
    THEN [dict |-> store, value |-> acc]
    ELSE LET r == dict_setdefault(store, <<position, Head(moves)>>, default_action_value)
         IN  setdefault_each(r.dict, position, Tail(moves), Append(acc, r.value))

(* [Q.get((position, m), -1) for m in moves] *)
RECURSIVE get_each(_, _, _, _)
get_each(store, position, moves, acc) ==
    IF moves = <<>>
    THEN [dict |-> store, value |-> acc]
    ELSE LET r == dict_get(store, <<position, Head(moves)>>, Num(-1))
         IN  get_each(r.dict, position, Tail(moves), Append(acc, r.value))

----------------------------------------------------------------------------
(* print_policy. *)

unknownMove == "*"

(* Mutant: the goal is tested after the lookups, so a goal cell with estimates shows one. *)
moveSymbol_goal_last(store, move_symbols, goal_position, position) ==
    LET vals == get_each(store, position, dict_keys(move_symbols), <<>>)
        m == builtin_max(vals.value)
    IN  IF m.exc # "none"
        THEN [exc |-> m.exc, value |-> <<>>, dict |-> vals.dict]
        ELSE IF m.value = Num(-1)
             THEN [exc |-> "none",
                   value |-> IF position = goal_position THEN "@" ELSE unknownMove,
                   dict |-> vals.dict]
             ELSE [exc |-> "none",
                   value |-> move_symbols[max_arg(vals.value).value + 1][2],
                   dict |-> vals.dict]

(* moveSymbol(position): [exc, value |-> the symbol, dict |-> the store after the call]. *)
moveSymbol(store, move_symbols, goal_position, position) ==
    IF position = goal_position
    THEN [exc |-> "none", value |-> "@", dict |-> store]
    ELSE LET vals == get_each(store, position, dict_keys(move_symbols), <<>>)
             m == builtin_max(vals.value)
         IN  IF m.exc # "none"
             THEN [exc |-> m.exc, value |-> <<>>, dict |-> vals.dict]
             ELSE IF m.value = Num(-1)
                  THEN [exc |-> "none", value |-> unknownMove, dict |-> vals.dict]
                  ELSE [exc |-> "none",
                        value |-> move_symbols[max_arg(vals.value).value + 1][2],
                        dict |-> vals.dict]

(* The positions of one row, for x in range(max_x + 1). *)
policy_row(max_x, y) == [i \in 1..(max_x + 1) |-> Position(i - 1, y)]

(* [moveSymbol(Position(x, y)) for x in range(max_x+1)]: a row's symbols, left to right. *)
RECURSIVE symbols_of_row(_, _, _, _, _)
symbols_of_row(store, move_symbols, goal_position, cells, acc) ==
    IF cells = <<>>
    THEN [exc |-> "none", value |-> acc, dict |-> store]
    ELSE LET r == moveSymbol(store, move_symbols, goal_position, Head(cells))
         IN  IF r.exc # "none"
             THEN [exc |-> r.exc, value |-> <<>>, dict |-> r.dict]
             ELSE symbols_of_row(r.dict, move_symbols, goal_position, Tail(cells),
                                 Append(acc, r.value))

(* The rows, for y in range(max_y, -1, -1). *)
RECURSIVE symbols_of_rows(_, _, _, _, _, _)
symbols_of_rows(store, move_symbols, goal_position, max_x, y, acc) ==
    IF y < 0
    THEN [exc |-> "none", value |-> acc, dict |-> store]
    ELSE LET r == symbols_of_row(store, move_symbols, goal_position, policy_row(max_x, y), <<>>)
         IN  IF r.exc # "none"
             THEN [exc |-> r.exc, value |-> <<>>, dict |-> r.dict]
             ELSE symbols_of_rows(r.dict, move_symbols, goal_position, max_x, y - 1,
                                  Append(acc, r.value))

(* sep.join(parts): a string is the sequence of its characters. *)
RECURSIVE str_join(_, _)
str_join(sep, parts) ==
    IF parts = <<>> THEN <<>>
    ELSE IF Len(parts) = 1 THEN Head(parts)
    ELSE Head(parts) \o sep \o str_join(sep, Tail(parts))

(* "\n".join([" ".join(line) for line in symbols]) *)
policy_text(symbols) ==
    str_join(<<"\n">>,
             [r \in 1..Len(symbols) |->
                 str_join(<<" ">>, [c \in 1..Len(symbols[r]) |-> <<symbols[r][c]>>])])

(* print_policy(board, Q, move_symbol_map, goal_position):                         *)
(* [exc, value |-> the text printed, dict |-> Q after the call].                   *)
print_policy(b, store, move_symbols, goal_position) ==
    LET dims == Board_dimensions(b)
        r == symbols_of_rows(store, move_symbols, goal_position, dims[1], dims[2], <<>>)
    IN  IF r.exc # "none"
        THEN r
        ELSE [exc |-> "none", value |-> policy_text(r.value), dict |-> r.dict]

----------------------------------------------------------------------------
(* generate_strategy: the pieces of one iteration of its loop. *)

(* Mutant: the loop runs one iteration more. *)
loop_continues_once_more(done, budget) == done <= budget

(* for _step in range(total_steps): another iteration follows `done` completed ones. *)
loop_continues(done, budget) == done < budget

(* random.random() < epsilon *)
explores(r, eps) == RatLess(r, eps)

(* Mutant: choosing from no candidate returns None instead of raising. *)
random_choice_or_none(candidates) ==
    IF candidates = <<>>
    THEN {Ret(<<>>)}
    ELSE {Ret(candidates[i]) : i \in 1..Len(candidates)}

(* random.choice(candidates): the results it can have; IndexError from an empty list. *)
random_choice(candidates) ==
    IF candidates = <<>>
    THEN {Raise("IndexError")}
    ELSE {Ret(candidates[i]) : i \in 1..Len(candidates)}

(* The greedy selection at a position:                                              *)
(*   action_values = [Q.setdefault((pos, m), default_action_value()) for m in ...]  *)
(*   allowed_moves[max_arg(action_values)]                                          *)
(* [exc, value |-> the move, dict |-> the store after the lookups].                 *)
greedy_move(store, position, allowed_moves) ==
    LET action_values == setdefault_each(store, position, allowed_moves, <<>>)
        best == max_arg(action_values.value)
    IN  IF best.exc # "none"
        THEN [exc |-> best.exc, value |-> <<>>, dict |-> action_values.dict]
        ELSE [exc |-> "none", value |-> allowed_moves[best.value + 1],
              dict |-> action_values.dict]

(* Mutant: the value of the next pair is not discounted. *)
value_increment_undiscounted(a, g, next_value, current_value, at_goal) ==
    LET increment == RatMul(a, RatSub(next_value, current_value))
    IN  IF at_goal THEN RatAdd(increment, RatMul(a, Num(100))) ELSE increment

(* Mutant: arriving at the goal costs 100 instead of being worth 100. *)
value_increment_penalty(a, g, next_value, current_value, at_goal) ==
    LET new_pos_val == RatMul(g, next_value)
        increment == RatMul(a, RatSub(new_pos_val, current_value))
    IN  IF at_goal THEN RatSub(increment, RatMul(a, Num(100))) ELSE increment

(* value_increment, with the goal's reward of 100 when the new position is the goal. *)
value_increment(a, g, next_value, current_value, at_goal) ==
    LET new_pos_val == RatMul(g, next_value)
        increment == RatMul(a, RatSub(new_pos_val, current_value))
    IN  IF at_goal THEN RatAdd(increment, RatMul(a, Num(100))) ELSE increment

(* Mutant: the value of the next pair is read with Q.pop, which removes the entry. *)
td_update_popping(store, a, g, position, move, next_position, next_move, goal_position) ==
    LET next == dict_setdefault(store, <<next_position, next_move>>, default_action_value)
        key == <<position, move>>
        read == <<next_position, next_move>>
        inc == value_increment(a, g, next.value, next.dict[key], next_position = goal_position)
        updated == [next.dict EXCEPT ![key] = RatAdd(@, inc)]
    IN  IF read = key THEN updated ELSE [k \in (DOMAIN updated) \ {read} |-> updated[k]]

(* Mutant: the increment is added to the entry of the next pair. *)
td_update_next_pair(store, a, g, position, move, next_position, next_move, goal_position) ==
    LET next == dict_setdefault(store, <<next_position, next_move>>, default_action_value)
        key == <<position, move>>
        inc == value_increment(a, g, next.value, next.dict[key], next_position = goal_position)
    IN  [next.dict EXCEPT ![<<next_position, next_move>>] = RatAdd(@, inc)]

(* Mutant: the increment is written under the new position, Q[(new_pos, chosen_move)]. *)
td_update_at_arrival(store, a, g, position, move, next_position, next_move, goal_position) ==
    LET next == dict_setdefault(store, <<next_position, next_move>>, default_action_value)
        key == <<position, move>>
        written == <<next_position, move>>
        inc == value_increment(a, g, next.value, next.dict[key], next_position = goal_position)
    IN  IF written \in DOMAIN next.dict
        THEN [next.dict EXCEPT ![written] = RatAdd(@, inc)]
        ELSE (written :> RatAdd(default_action_value, inc)) @@ next.dict

(* The update of Q[(pos, chosen_move)] from the pair (new_pos, new_pos_move):       *)
(* the store after Q.setdefault((new_pos, new_pos_move), ...) and the += .          *)
td_update(store, a, g, position, move, next_position, next_move, goal_position) ==
    LET next == dict_setdefault(store, <<next_position, next_move>>, default_action_value)
        key == <<position, move>>
        inc == value_increment(a, g, next.value, next.dict[key], next_position = goal_position)
    IN  [next.dict EXCEPT ![key] = RatAdd(@, inc)]

(* Mutant: the episode does not end at the goal. *)
next_start_no_reset(next_position, goal_position, start_position) == next_position

(* Where the next iteration starts. *)
next_start(next_position, goal_position, start_position) ==
    IF next_position = goal_position THEN start_position ELSE next_position

----------------------------------------------------------------------------
(* The inputs generate_strategy is run on. *)

NoValue == <<>>

Speeds == (-MaxSpeed)..MaxSpeed

(* A wind speed table: empty, or with one entry. *)
WindTables == {EmptyDict} \cup {c :> s : c \in 0..MaxX, s \in Speeds}

Winds == {SouthWind(t) : t \in WindTables} \cup {WestWind(t) : t \in WindTables}

Boards == {Board(w, h, wind) : w \in 1..(MaxX + 1), h \in 1..(MaxY + 1), wind \in Winds}

(* The winds generate_strategy is run under: none, upwards in the column x = 0,    *)
(* to the right in the row y = 0, to the left in the row y = 1.                    *)
StrategyWinds ==
    {SouthWind(EmptyDict), SouthWind(0 :> 1), WestWind(0 :> 1), WestWind(1 :> -MaxSpeed)}

StrategyBoards ==
    {Board(w, h, wind) : w \in 1..(MaxX + 1), h \in 1..(MaxY + 1), wind \in StrategyWinds}

OnBoard(b) == (0..b.max_x) \X (0..b.max_y)

(* The default move_symbol_map of generate_strategy, in its insertion order. *)
DefaultMoveSymbolMap ==
    << <<Move(-1, 0), "L">>, <<Move(1, 0), "R">>, <<Move(0, 1), "U">>, <<Move(0, -1), "D">> >>

(* The maps generate_strategy is run with: none, one displacement, the default four. *)
MoveSymbolMaps == {<<>>, << <<Move(1, 0), "R">> >>, DefaultMoveSymbolMap}

(* The learning speeds: two in (0, 1] and one above. *)
Alphas == {Rat(1, 2), Num(1), Num(2)}
Gammas == {Num(0), Rat(1, 2), Num(1)}
Epsilons == {Num(0), Rat(1, 2), Num(1)}

(* The values random.random() returns: in [0, 1). *)
Draws == {Num(0), Rat(1, 2), Rat(3, 4)}

NoCall == [fn |-> "none"]

----------------------------------------------------------------------------
(* generate_strategy. *)

Init ==
    /\ board \in StrategyBoards
    /\ start_pos \in OnBoard(board) \cup {Position(board.max_x + 1, 0)}
    /\ goal_pos \in OnBoard(board)
    /\ total_steps \in 0..MaxSteps
    /\ alpha \in Alphas
    /\ gamma \in Gammas
    /\ epsilon \in Epsilons
    /\ move_symbol_map \in MoveSymbolMaps
    /\ Q = EmptyDict
    /\ pos = Position_clone(start_pos)
    /\ step = 0
    /\ pc = "loop"
    /\ chosen_move = NoValue
    /\ new_pos = NoValue
    /\ new_pos_move = NoValue
    /\ new_pos_branch = "none"
    /\ branch = "none"
    /\ stdout = <<"Starting wild wandering ...">>
    /\ call = NoCall

Params == <<board, start_pos, goal_pos, total_steps, alpha, gamma, epsilon, move_symbol_map>>

(* When each step is taken: the loop's condition and its first draw. What a step does is   *)
(* defined in every state in which it is taken.                                            *)
ExploreTaken ==
    /\ pc = "loop"
    /\ loop_continues(step, total_steps)
    /\ \E r \in Draws : explores(r, epsilon)

ExploitTaken ==
    /\ pc = "loop"
    /\ loop_continues(step, total_steps)
    /\ \E r \in Draws : ~explores(r, epsilon)

FinishTaken ==
    /\ pc = "loop"
    /\ ~loop_continues(step, total_steps)

(* Mutant: the explore branch also moves the agent by the displacement it chose. *)
Explore_moving ==
    /\ ExploreTaken
    /\ LET allowed_moves == dict_keys(move_symbol_map)
       IN  \E chosen \in random_choice(allowed_moves) :
               IF chosen.exc # "none"
               THEN /\ pc' = chosen.exc
                    /\ UNCHANGED <<step, chosen_move, pos>>
               ELSE LET moved == Board_move(board, pos, chosen.value)
                    IN  /\ chosen_move' = chosen.value
                        /\ pc' = IF moved.exc # "none" THEN moved.exc ELSE pc
                        /\ pos' = IF moved.exc # "none" THEN pos ELSE moved.value
                        /\ step' = IF moved.exc # "none" THEN step ELSE step + 1
    /\ branch' = "explore"
    /\ UNCHANGED <<Params, Q, new_pos, new_pos_move, new_pos_branch, stdout, call>>

(* An iteration whose first draw is below epsilon: chosen_move = random.choice(allowed_moves). *)
Explore ==
    /\ ExploreTaken
    /\ LET allowed_moves == dict_keys(move_symbol_map)
       IN  \E chosen \in random_choice(allowed_moves) :
               IF chosen.exc # "none"
               THEN /\ pc' = chosen.exc
                    /\ UNCHANGED <<step, chosen_move>>
               ELSE /\ chosen_move' = chosen.value
                    /\ step' = step + 1
                    /\ pc' = pc
    /\ branch' = "explore"
    /\ UNCHANGED <<Params, Q, pos, new_pos, new_pos_move, new_pos_branch, stdout, call>>

(* An iteration whose first draw is not below epsilon. *)
Exploit ==
    /\ ExploitTaken
    /\ branch' = "exploit"
    /\ UNCHANGED <<Params, stdout, call>>
    /\ LET allowed_moves == dict_keys(move_symbol_map)
           first == greedy_move(Q, pos, allowed_moves)
           moved == Board_move(board, pos, first.value)
       IN  IF first.exc # "none"
           THEN /\ pc' = first.exc
                /\ Q' = first.dict
                /\ UNCHANGED <<pos, step, chosen_move, new_pos, new_pos_move, new_pos_branch>>
           ELSE IF moved.exc # "none"
           THEN /\ pc' = moved.exc
                /\ Q' = first.dict
                /\ chosen_move' = first.value
                /\ UNCHANGED <<pos, step, new_pos, new_pos_move, new_pos_branch>>
           ELSE \E r2 \in Draws, chosen \in random_choice(allowed_moves) :
                LET second == IF explores(r2, epsilon)
                              THEN [exc |-> "none", value |-> chosen.value,
                                    dict |-> first.dict]
                              ELSE greedy_move(first.dict, moved.value, allowed_moves)
                IN  /\ chosen_move' = first.value
                    /\ new_pos' = moved.value
                    /\ new_pos_move' = second.value
                    /\ new_pos_branch' = IF explores(r2, epsilon) THEN "explore" ELSE "greedy"
                    /\ Q' = td_update(second.dict, alpha, gamma, pos, first.value,
                                      moved.value, second.value, goal_pos)
                    /\ pos' = next_start(moved.value, goal_pos, start_pos)
                    /\ step' = step + 1
                    /\ pc' = pc

(* The loop is over: the two prints that end generate_strategy. *)
Finish ==
    /\ FinishTaken
    /\ LET rendered == print_policy(board, Q, move_symbol_map, goal_pos)
       IN  /\ Q' = rendered.dict
           /\ pc' = IF rendered.exc = "none" THEN "done" ELSE rendered.exc
           /\ stdout' = stdout \o << <<"Exhausted after {} steps... stopping.\n", total_steps>> >>
                               \o (IF rendered.exc = "none" THEN <<rendered.value>> ELSE <<>>)
    /\ UNCHANGED <<Params, pos, step, chosen_move, new_pos, new_pos_move, new_pos_branch,
                   branch, call>>

Next == Explore \/ Exploit \/ Finish

Spec == Init /\ [][Next]_vars

----------------------------------------------------------------------------
(* Board.move applied on its own, once, to any position and displacement. *)

(* The board of example1(): 10 x 7, wind from the south. *)
Example1Board ==
    Board(10, 7, SouthWind((3 :> 1) @@ (4 :> 1) @@ (5 :> 1) @@ (6 :> 2) @@ (7 :> 2) @@ (8 :> 1)))

(* A board of width 5 without wind. *)
CalmBoard == Board(5, 7, SouthWind(EmptyDict))

(* The variables of generate_strategy while it is not run. *)
NotRunning ==
    /\ start_pos = NoValue
    /\ goal_pos = NoValue
    /\ total_steps = 0
    /\ alpha = NoValue
    /\ gamma = NoValue
    /\ epsilon = NoValue
    /\ pos = NoValue
    /\ step = 0
    /\ pc = "idle"
    /\ chosen_move = NoValue
    /\ new_pos = NoValue
    /\ new_pos_move = NoValue
    /\ new_pos_branch = "none"
    /\ branch = "none"
    /\ stdout = <<>>

Running == <<start_pos, goal_pos, total_steps, alpha, gamma, epsilon, pos, pc,
             chosen_move, new_pos, new_pos_move, new_pos_branch, branch, stdout>>

(* The positions given to Board.move: the board and one cell around it. *)
PositionsAround(b) == ((-1)..(b.max_x + 1)) \X ((-1)..(b.max_y + 1))

AgentMoves == ((-MaxDelta)..MaxDelta) \X ((-MaxDelta)..MaxDelta)

InitMove ==
    /\ board \in Boards \cup {Example1Board, CalmBoard}
    /\ move_symbol_map = <<>>
    /\ Q = EmptyDict
    /\ call = NoCall
    /\ NotRunning

CallBoardMove ==
    /\ call = NoCall
    /\ \E position \in PositionsAround(board), agent_move \in AgentMoves :
          call' = [fn |-> "Board.move", position |-> position, agent_move |-> agent_move,
                   ret |-> Board_move(board, position, agent_move)]
    /\ UNCHANGED <<board, move_symbol_map, Q, step, Running>>

NextMove == CallBoardMove

SpecMove == InitMove /\ [][NextMove]_vars

(* The clamp of v into lo..hi, and the wind's displacement at a position, stated anew. *)
Clamp(v, lo, hi) == IF v < lo THEN lo ELSE IF v > hi THEN hi ELSE v

WindAt(b, position) ==
    LET table == b.wind.wind_speed
        c == IF b.wind.kind = "SouthWind" THEN position[1] ELSE position[2]
        speed == IF c \in DOMAIN table THEN table[c] ELSE 0
    IN  IF b.wind.kind = "SouthWind" THEN <<0, speed>> ELSE <<speed, 0>>

InGrid(b, position) ==
    /\ 0 <= position[1] /\ position[1] <= b.max_x
    /\ 0 <= position[2] /\ position[2] <= b.max_y

(* C1: a position Board.move returns has 0 <= x <= max_x and 0 <= y <= max_y, whatever the *)
(* input position, the displacement and the wind.                                         *)
C1_MoveStaysOnBoard ==
    (call.fn = "Board.move" /\ call.ret.exc = "none") =>
        /\ 0 <= call.ret.value[1] /\ call.ret.value[1] <= board.max_x
        /\ 0 <= call.ret.value[2] /\ call.ret.value[2] <= board.max_y

(* C1's case: a displacement that leaves the grid on both axes was absorbed by the walls. *)
C1_Witness ==
    /\ call.fn = "Board.move"
    /\ InGrid(board, call.position)
    /\ call.position[1] + call.agent_move[1] + WindAt(board, call.position)[1] > board.max_x
    /\ call.position[2] + call.agent_move[2] + WindAt(board, call.position)[2] < 0
    /\ call.ret = Ret(<<board.max_x, 0>>)

(* C2: from an on-board position (x, y), Board.move returns                                *)
(* (clamp(x + dx + wx, 0, max_x), clamp(y + dy + wy, 0, max_y)) with (wx, wy) the wind at   *)
(* (x, y), speed 0 for a coordinate absent from the table; and the two examples.            *)
C2_MoveIsClampedSum ==
    call.fn = "Board.move" =>
        /\ InGrid(board, call.position) =>
              call.ret = [exc |-> "none",
                          value |-> <<Clamp(call.position[1] + call.agent_move[1]
                                              + WindAt(board, call.position)[1], 0, board.max_x),
                                      Clamp(call.position[2] + call.agent_move[2]
                                              + WindAt(board, call.position)[2], 0, board.max_y)>>]
        /\ (board = Example1Board /\ call.position = <<4, 3>> /\ call.agent_move = <<0, 0>>)
              => call.ret.value = <<4, 4>>
        /\ (board = CalmBoard /\ call.position = <<4, 3>> /\ call.agent_move = <<1, 0>>)
              => call.ret.value = <<4, 3>>

(* C2's case: the wind blows at the input position and not where the displacement leads.  *)
C2_Witness ==
    /\ call.fn = "Board.move"
    /\ InGrid(board, call.position)
    /\ WindAt(board, call.position) # <<0, 0>>
    /\ WindAt(board, <<call.position[1] + call.agent_move[1],
                       call.position[2] + call.agent_move[2]>>) = <<0, 0>>
    /\ call.agent_move # <<0, 0>>
    /\ call.ret.value = <<call.position[1] + call.agent_move[1] + WindAt(board, call.position)[1],
                          call.position[2] + call.agent_move[2] + WindAt(board, call.position)[2]>>

(* C3: Board.move raises InvalidPositionException exactly when the input position has      *)
(* x < 0, x > max_x, y < 0 or y > max_y, and then returns no position.                      *)
C3_MoveRaisesIffOffBoard ==
    call.fn = "Board.move" =>
        /\ call.ret.exc \in {"none", "InvalidPositionException"}
        /\ call.ret.exc = "InvalidPositionException" <=>
              (\/ call.position[1] < 0 \/ call.position[1] > board.max_x
               \/ call.position[2] < 0 \/ call.position[2] > board.max_y)
        /\ call.ret.exc = "InvalidPositionException" => call.ret.value = NoValue
        /\ call.ret.exc = "none" => call.ret.value # NoValue

(* C3's case: an input position just beyond max_x, which clamping would have pulled in.    *)
C3_Witness ==
    /\ call.fn = "Board.move"
    /\ call.position = <<board.max_x + 1, 0>>
    /\ call.agent_move = <<-1, 0>>
    /\ call.ret.exc = "InvalidPositionException"

----------------------------------------------------------------------------
(* The action-value store applied on its own: lookups and writes in any order. *)

(* The keys of the largest board, under the default moves. *)
StoreKeys == ((0..MaxX) \X (0..MaxY)) \X {DefaultMoveSymbolMap[i][1] : i \in 1..4}

(* What a write adds to an entry. *)
Increments == {Rat(-1, 4), Rat(99, 2)}

InitStore ==
    /\ board = Board(MaxX + 1, MaxY + 1, SouthWind(EmptyDict))
    /\ move_symbol_map = DefaultMoveSymbolMap
    /\ Q = EmptyDict
    /\ call = NoCall
    /\ NotRunning

(* Q.setdefault(key, default_action_value()) *)
CallSetdefault ==
    /\ step < MaxCalls
    /\ \E key \in StoreKeys :
          LET r == dict_setdefault(Q, key, default_action_value)
          IN  /\ Q' = r.dict
              /\ call' = [fn |-> "Q.setdefault", key |-> key, before |-> Q, ret |-> r.value]
    /\ step' = step + 1
    /\ UNCHANGED <<board, move_symbol_map, Running>>

(* Q[key] += value_increment, on a key that was looked up before. *)
CallWrite ==
    /\ step < MaxCalls
    /\ \E key \in DOMAIN Q, inc \in Increments :
          /\ Q' = [Q EXCEPT ![key] = RatAdd(@, inc)]
          /\ call' = [fn |-> "Q.write", key |-> key, before |-> Q, ret |-> NoValue]
    /\ step' = step + 1
    /\ UNCHANGED <<board, move_symbol_map, Running>>

NextStore == CallSetdefault \/ CallWrite

SpecStore == InitStore /\ [][NextStore]_vars

(* A lookup leaves every other entry as it was. *)
C8_LookupResult ==
    call.fn = "Q.setdefault" =>
        /\ call.key \notin DOMAIN call.before =>
              /\ call.ret = <<1, 1>>
              /\ DOMAIN Q = DOMAIN call.before \cup {call.key}
              /\ Q[call.key] = <<1, 1>>
        /\ call.key \in DOMAIN call.before =>
              /\ call.ret = call.before[call.key]
              /\ DOMAIN Q = DOMAIN call.before
              /\ Q[call.key] = call.before[call.key]
        /\ \A k \in DOMAIN call.before : k # call.key => Q[k] = call.before[k]

(* A lookup that follows a lookup of the same key, with no write between them. *)
C8_SecondLookup ==
    (call.fn = "Q.setdefault" /\ call'.fn = "Q.setdefault" /\ call'.key = call.key)
        => call'.ret = call.ret

(* C8: the first lookup of a key with no entry returns the default estimate 1 and stores    *)
(* it; a second lookup of the key, with no write between, returns the same value; a lookup  *)
(* of a key with an entry returns the stored value and leaves it.                           *)
C8_LazyDefault == [](C8_LookupResult) /\ [][C8_SecondLookup]_vars

(* C8's case: a key was looked up, written, and looked up again: the written value is read. *)
C8_Witness ==
    /\ call.fn = "Q.setdefault"
    /\ call.key \in DOMAIN call.before
    /\ call.before[call.key] # <<1, 1>>
    /\ call.ret # <<1, 1>>

----------------------------------------------------------------------------
(* The selections applied on their own, once each, to any store: max_arg, the greedy      *)
(* selection of the loop, and print_policy.                                               *)

(* The values a store given to the selections holds: below the renderer's sentinel, the   *)
(* sentinel -1 itself, the default 1 and a value above it.                                *)
SelectValues == {Num(-2), Num(-1), Num(1), Num(2)}

Arrays == UNION {[1..n -> SelectValues] : n \in 0..MaxLen}

SelectMaps == {<<>>, << <<Move(0, 1), "U">>, <<Move(1, 0), "R">> >>, DefaultMoveSymbolMap}

(* The subsets of S of at most k elements. *)
RECURSIVE SubsetsUpTo(_, _)
SubsetsUpTo(S, k) ==
    IF k = 0 THEN {{}}
    ELSE LET smaller == SubsetsUpTo(S, k - 1)
         IN  smaller \cup {D \cup {x} : D \in smaller, x \in S}

(* The stores whose entries, at most MaxEntries, are all at one cell of the board. *)
StoresAt(cells, moves) ==
    UNION {[D -> SelectValues] :
             D \in UNION {SubsetsUpTo({c} \X {moves[i] : i \in 1..Len(moves)}, MaxEntries) :
                             c \in cells}}

InitSelect ==
    /\ board \in {Board(w, h, SouthWind(EmptyDict)) : w \in 1..(MaxX + 1), h \in 1..(MaxY + 1)}
    /\ move_symbol_map \in SelectMaps
    /\ Q \in StoresAt(OnBoard(board), dict_keys(move_symbol_map))
    /\ call = NoCall
    /\ NotRunning

CallMaxArg ==
    /\ call = NoCall
    /\ \E array \in Arrays : call' = [fn |-> "max_arg", array |-> array, ret |-> max_arg(array)]
    /\ UNCHANGED <<board, move_symbol_map, Q, step, Running>>

CallGreedyMove ==
    /\ call = NoCall
    /\ \E position \in OnBoard(board) :
          LET r == greedy_move(Q, position, dict_keys(move_symbol_map))
          IN  /\ call' = [fn |-> "greedy_move", position |-> position, before |-> Q,
                          ret |-> [exc |-> r.exc, value |-> r.value]]
              /\ Q' = r.dict
    /\ UNCHANGED <<board, move_symbol_map, step, Running>>

CallPrintPolicy ==
    /\ call = NoCall
    /\ \E goal_position \in OnBoard(board) \cup {Position(-1, -1)} :
          LET r == print_policy(board, Q, move_symbol_map, goal_position)
          IN  /\ call' = [fn |-> "print_policy", goal_position |-> goal_position, before |-> Q,
                          ret |-> [exc |-> r.exc, value |-> r.value]]
              /\ Q' = r.dict
    /\ UNCHANGED <<board, move_symbol_map, step, Running>>

NextSelect == CallMaxArg \/ CallGreedyMove \/ CallPrintPolicy

SpecSelect == InitSelect /\ [][NextSelect]_vars

(* C9: print_policy leaves the store as it was: the same keys, the same value under each.  *)
C9_RenderReadsOnly ==
    call.fn = "print_policy" =>
        /\ DOMAIN Q = DOMAIN call.before
        /\ \A k \in DOMAIN Q : Q[k] = call.before[k]

(* C9's case: a policy was printed from a store that has an entry, and has none for some   *)
(* displacement at a cell that is not the goal.                                            *)
C9_Witness ==
    /\ call.fn = "print_policy"
    /\ call.ret.exc = "none"
    /\ call.before # EmptyDict
    /\ \E c \in OnBoard(board), i \in 1..Len(move_symbol_map) :
          c # call.goal_position /\ <<c, move_symbol_map[i][1]>> \notin DOMAIN call.before

(* The order of the numbers and the first index of the greatest of a list, stated anew. *)
AtMost(a, b) == a[1] * b[2] <= b[1] * a[2]

FirstMax(values) ==
    CHOOSE i \in 1..Len(values) :
        /\ \A j \in 1..Len(values) : AtMost(values[j], values[i])
        /\ \A j \in 1..(i - 1) : ~AtMost(values[i], values[j])

(* The values of the displacements at a cell, an absent one read as `absent`. *)
ValuesAt(store, cell, move_symbols, absent) ==
    [i \in 1..Len(move_symbols) |->
        IF <<cell, move_symbols[i][1]>> \in DOMAIN store
        THEN store[<<cell, move_symbols[i][1]>>] ELSE absent]

(* The symbol printed for a cell: rows from y = max_y down, two characters a cell. *)
SymbolAt(text, b, cell) == text[(b.max_y - cell[2]) * 2 * (b.max_x + 1) + 2 * cell[1] + 1]

(* C10: max_arg returns the lowest index holding the maximum of a non-empty list; so the   *)
(* greedy selection of the loop, and the symbol print_policy prints for a cell, are those  *)
(* of the displacement earliest in the key order of the map among the ones of the highest  *)
(* value.                                                                                  *)
C10_LowestIndexOfMaximum ==
    /\ (call.fn = "max_arg" /\ call.array # <<>>) =>
          call.ret = [exc |-> "none", value |-> FirstMax(call.array) - 1]
    /\ (call.fn = "greedy_move" /\ move_symbol_map # <<>>) =>
          LET values == ValuesAt(call.before, call.position, move_symbol_map, <<1, 1>>)
          IN  call.ret = [exc |-> "none", value |-> move_symbol_map[FirstMax(values)][1]]
    /\ (call.fn = "print_policy" /\ call.ret.exc = "none") =>
          \A c \in OnBoard(board) :
              LET values == ValuesAt(call.before, c, move_symbol_map, <<-1, 1>>)
              IN  (c # call.goal_position /\ values[FirstMax(values)] # <<-1, 1>>)
                  => SymbolAt(call.ret.value, board, c) = move_symbol_map[FirstMax(values)][2]

(* C10's case: at a printed cell two displacements tie for the highest value and an earlier *)
(* one is lower; the symbol is that of the first of the two.                                *)
C10_Witness ==
    /\ call.fn = "print_policy"
    /\ call.ret.exc = "none"
    /\ \E c \in OnBoard(board) :
          LET values == ValuesAt(call.before, c, move_symbol_map, <<-1, 1>>)
          IN  /\ c # call.goal_position
              /\ \E h, i, j \in 1..Len(values) :
                    /\ h < i /\ i < j
                    /\ values[i] = values[j]
                    /\ ~AtMost(values[i], values[h])
                    /\ \A k \in 1..Len(values) : AtMost(values[k], values[i])
                    /\ SymbolAt(call.ret.value, board, c) = move_symbol_map[i][2]

----------------------------------------------------------------------------
(* Claims about the run of generate_strategy. *)

(* C4: when the position Board.move returned is the goal, the next step starts at the      *)
(* start position; otherwise it starts at the position returned.                           *)
C4_EpisodeReset ==
    new_pos # NoValue =>
        /\ new_pos = goal_pos => pos = start_pos
        /\ new_pos # goal_pos => pos = new_pos

(* C4's case: the goal was reached with steps left, from a start that is not the goal, and *)
(* the store holds an estimate that is not the default.                                    *)
C4_Witness ==
    /\ pc = "loop"
    /\ step < total_steps
    /\ new_pos = goal_pos
    /\ start_pos # goal_pos
    /\ pos = start_pos
    /\ \E k \in DOMAIN Q : Q[k] # <<1, 1>>

(* C5: from a start position on the board, the agent's position stays within               *)
(* [0, max_x] x [0, max_y] and InvalidPositionException is never raised.                    *)
C5_AgentStaysOnBoard ==
    (/\ 0 <= start_pos[1] /\ start_pos[1] <= board.max_x
     /\ 0 <= start_pos[2] /\ start_pos[2] <= board.max_y)
    => /\ 0 <= pos[1] /\ pos[1] <= board.max_x
       /\ 0 <= pos[2] /\ pos[2] <= board.max_y
       /\ pc # "InvalidPositionException"

(* C5's case: two steps were taken under a wind, the last one by Board.move, and the agent *)
(* is at the wall max_x, away from where it started.                                       *)
C5_Witness ==
    /\ InGrid(board, start_pos)
    /\ board.wind.wind_speed # EmptyDict
    /\ step >= 2
    /\ branch = "exploit"
    /\ pos = new_pos
    /\ pos # start_pos
    /\ pos[1] = board.max_x

(* The runs C6 is about: a start position on the board and at least one displacement. *)
C6_Runs == InGrid(board, start_pos) /\ move_symbol_map # <<>>

(* No run ends but by the renderer, which prints once, after total_steps steps; a run that *)
(* has not ended can take a step.                                                         *)
C6_Budget ==
    C6_Runs =>
        /\ pc \in {"loop", "done"}
        /\ step <= total_steps
        /\ pc = "loop" => (Len(stdout) = 1 /\ (ExploreTaken \/ ExploitTaken \/ FinishTaken))
        /\ pc = "done" => (step = total_steps /\ Len(stdout) = 3)

(* Below the budget every step consumes one step and goes on; at the budget the run ends. *)
C6_Step ==
    (C6_Runs /\ pc = "loop") =>
        /\ step < total_steps => (step' = step + 1 /\ pc' = "loop")
        /\ step = total_steps => (step' = step /\ pc' = "done")

(* C6: with a start position on the board and a displacement to choose, generate_strategy  *)
(* terminates after exactly total_steps steps, each explore or exploit step counting one,  *)
(* reaching the goal or not, and the policy is printed once, after the last step. A run    *)
(* that has not ended can take a step, and each step lowers total_steps - step, or ends    *)
(* the run when that is 0: the run ends after total_steps + 1 steps of the model.          *)
C6_Terminates == [](C6_Budget) /\ [][C6_Step]_vars

(* C6's case: a run of two steps or more ended; its goal was reached by a step before the  *)
(* last one, an explore step.                                                              *)
C6_Witness ==
    /\ C6_Runs
    /\ pc = "done"
    /\ total_steps >= 2
    /\ step = total_steps
    /\ new_pos = goal_pos
    /\ branch = "explore"
    /\ Len(stdout) = 3

(* The estimate a key holds once looked up: its entry, or the default 1. *)
Held(store, k) == IF k \in DOMAIN store THEN store[k] ELSE <<1, 1>>

(* C7: an exploit step at pos with greedy displacement a, pos2 = Board.move(pos, a) and     *)
(* second displacement a2 sets Q[pos, a] to                                                 *)
(*   Q[pos, a] + alpha * (gamma * Q[pos2, a2] - Q[pos, a]) + (alpha * 100 if pos2 is the goal) *)
(* over the values held before the write, an absent entry holding the default.              *)
C7_Update ==
    (branch' = "exploit" /\ step' = step + 1) =>
        LET a == chosen_move'
            pos2 == new_pos'
            a2 == new_pos_move'
            current == Held(Q, <<pos, a>>)
            target == RatMul(gamma, Held(Q, <<pos2, a2>>))
            reward == IF pos2 = goal_pos THEN RatMul(alpha, <<100, 1>>) ELSE <<0, 1>>
        IN  /\ \A i \in 1..Len(move_symbol_map) :
                  AtMost(Held(Q, <<pos, move_symbol_map[i][1]>>), current)
            /\ pos2 = <<Clamp(pos[1] + a[1] + WindAt(board, pos)[1], 0, board.max_x),
                        Clamp(pos[2] + a[2] + WindAt(board, pos)[2], 0, board.max_y)>>
            /\ \E i \in 1..Len(move_symbol_map) : a2 = move_symbol_map[i][1]
            /\ Q'[<<pos, a>>] = RatAdd(RatAdd(current, RatMul(alpha, RatSub(target, current))),
                                       reward)

C7_TemporalDifferenceUpdate == [][C7_Update]_vars

(* C7's case: alpha = gamma = 1/2 and the goal is one step from the start; the first step   *)
(* raised the estimate from 1 to 203/4 and the second, from that value, to 605/8.           *)
C7_Witness ==
    /\ alpha = <<1, 2>>
    /\ gamma = <<1, 2>>
    /\ branch = "exploit"
    /\ step = 2
    /\ new_pos = goal_pos
    /\ <<start_pos, chosen_move>> \in DOMAIN Q
    /\ Q[<<start_pos, chosen_move>>] = <<605, 8>>

----------------------------------------------------------------------------
(* Claims about the action-value store during a run of generate_strategy. *)

(* The number of cells of a board. *)
Cells(b) == (b.max_x + 1) * (b.max_y + 1)

(* Every key is a pair of a position on the board and an allowed displacement, and there   *)
(* are at most cells * displacements of them.                                             *)
C11_Keys ==
    InGrid(board, start_pos) =>
        /\ \A k \in DOMAIN Q :
              /\ InGrid(board, k[1])
              /\ \E i \in 1..Len(move_symbol_map) : k[2] = move_symbol_map[i][1]
        /\ Cardinality(DOMAIN Q) <= Cells(board) * Len(move_symbol_map)

(* No step removes an entry. *)
C11_Grows == InGrid(board, start_pos) => \A k \in DOMAIN Q : k \in DOMAIN Q'

(* C11: in a run from a start position on the board the key set of the store only grows,   *)
(* every key is (position on the board, allowed displacement), and the store never holds   *)
(* more than (max_x+1)*(max_y+1)*|allowed displacements| entries.                          *)
C11_KeySetGrowsWithinBoard == [](C11_Keys) /\ [][C11_Grows]_vars

(* C11's case: on a board of more than one cell the store holds an entry for every cell    *)
(* and displacement, one of them updated, and the run has ended.                           *)
C11_Witness ==
    /\ InGrid(board, start_pos)
    /\ Cells(board) > 1
    /\ move_symbol_map # <<>>
    /\ Cardinality(DOMAIN Q) = Cells(board) * Len(move_symbol_map)
    /\ \E k \in DOMAIN Q : Q[k] # <<1, 1>>
    /\ pc = "done"

----------------------------------------------------------------------------
(* Claims about the text print_policy prints. *)

(* The text has max_y + 1 rows of max_x + 1 symbols: a symbol at every odd place, a space  *)
(* after it within a row and a newline between two rows.                                  *)
GridText(text, b) ==
    /\ Len(text) = 2 * Cells(b) - 1
    /\ \A i \in 1..Len(text) :
          IF i % 2 = 1 THEN text[i] \notin {" ", "\n"}
          ELSE IF i % (2 * (b.max_x + 1)) = 0 THEN text[i] = "\n"
          ELSE text[i] = " "

(* The displacements with an entry at a cell, and those of them of the highest value. *)
HeldAt(store, cell, move_symbols) ==
    {i \in 1..Len(move_symbols) : <<cell, move_symbols[i][1]>> \in DOMAIN store}

MaximizingAt(store, cell, move_symbols) ==
    {i \in HeldAt(store, cell, move_symbols) :
        \A j \in HeldAt(store, cell, move_symbols) :
            AtMost(store[<<cell, move_symbols[j][1]>>], store[<<cell, move_symbols[i][1]>>])}

(* C12 as claimed, for a displacement set that is not empty: the grid is printed, with "@" *)
(* at the goal, "*" at a cell without any entry, and at every other cell the symbol of a   *)
(* displacement of the highest value among the cell's entries.                            *)
C12_AsClaimed ==
    (call.fn = "print_policy" /\ move_symbol_map # <<>>) =>
        /\ call.ret.exc = "none"
        /\ GridText(call.ret.value, board)
        /\ \A c \in OnBoard(board) :
              LET symbol == SymbolAt(call.ret.value, board, c)
              IN  IF c = call.goal_position THEN symbol = "@"
                  ELSE IF HeldAt(call.before, c, move_symbol_map) = {} THEN symbol = "*"
                  ELSE \E i \in MaximizingAt(call.before, c, move_symbol_map) :
                          symbol = move_symbol_map[i][2]

(* C12, amended: with a displacement set that is not empty print_policy prints max_y + 1   *)
(* rows of max_x + 1 symbols, rows from y = max_y down to 0 and cells from x = 0 up to     *)
(* max_x; the goal cell is "@" whatever the store holds for it; a cell that is not the     *)
(* goal is "*" when the greatest of its values, an absent entry counting as -1, is -1:     *)
(* when it has no entry, and also when it has entries, none above -1, and one of its       *)
(* values is -1 or absent; every other cell is the symbol of its maximizing                *)
(* displacement.                                                                           *)
C12_Rendering ==
    (call.fn = "print_policy" /\ move_symbol_map # <<>>) =>
        /\ call.ret.exc = "none"
        /\ GridText(call.ret.value, board)
        /\ \A c \in OnBoard(board) :
              LET symbol == SymbolAt(call.ret.value, board, c)
                  values == ValuesAt(call.before, c, move_symbol_map, <<-1, 1>>)
              IN  IF c = call.goal_position THEN symbol = "@"
                  ELSE IF values[FirstMax(values)] = <<-1, 1>> THEN symbol = "*"
                  ELSE /\ FirstMax(values) \in MaximizingAt(call.before, c, move_symbol_map)
                       /\ symbol = move_symbol_map[FirstMax(values)][2]

(* C12's case: a board of two rows and two columns is printed with its goal on it; a cell  *)
(* that is not the goal holds entries, the greatest of them -1, and is printed as "*".     *)
C12_Witness ==
    /\ call.fn = "print_policy"
    /\ call.ret.exc = "none"
    /\ board.max_x = 1 /\ board.max_y = 1
    /\ call.goal_position \in OnBoard(board)
    /\ SymbolAt(call.ret.value, board, call.goal_position) = "@"
    /\ \E c \in OnBoard(board) :
          /\ c # call.goal_position
          /\ HeldAt(call.before, c, move_symbol_map) # {}
          /\ \E i \in MaximizingAt(call.before, c, move_symbol_map) :
                call.before[<<c, move_symbol_map[i][1]>>] = <<-1, 1>>
          /\ SymbolAt(call.ret.value, board, c) = "*"

----------------------------------------------------------------------------
(* Claims about a run of generate_strategy without displacements. *)

(* The runs C13 is about: no displacement is allowed and there is a step to take. *)
C13_Runs == move_symbol_map = <<>> /\ total_steps >= 1

(* Such a run is before its first step, which can be taken, or has failed in it: no step   *)
(* was completed, Board.move was not called (it neither returned nor raised), the store    *)
(* has no entry and nothing was printed after the opening line.                            *)
C13_State ==
    C13_Runs =>
        /\ pc \in {"loop", "IndexError"}
        /\ pc = "loop" => (branch = "none" /\ (ExploreTaken \/ ExploitTaken))
        /\ pc = "IndexError" => branch \in {"explore", "exploit"}
        /\ step = 0
        /\ new_pos = NoValue
        /\ Q = EmptyDict
        /\ Len(stdout) = 1

(* The first step fails, whichever branch it takes. *)
C13_Step == (C13_Runs /\ pc = "loop") => pc' = "IndexError"

(* C13: with no allowed displacement and a budget of at least one step, generate_strategy  *)
(* fails with an error in its first step, in the explore branch and in the exploit branch, *)
(* before any Board.move call, store write or rendering; no displacement is selected from  *)
(* zero candidates.                                                                        *)
C13_EmptyDisplacementsFailFast == [](C13_State) /\ [][C13_Step]_vars

(* C13's case: the exploit branch of the first step failed in a run whose start position   *)
(* is off the board, where Board.move would have raised, and whose first draw could have   *)
(* taken either branch.                                                                    *)
C13_Witness ==
    /\ C13_Runs
    /\ pc = "IndexError"
    /\ branch = "exploit"
    /\ ~InGrid(board, start_pos)
    /\ epsilon = <<1, 2>>
    /\ chosen_move = NoValue

----------------------------------------------------------------------------
(* Claims about what one step of generate_strategy changes. *)

(* A step of the loop that takes the explore branch, with a displacement to choose. *)
ExploreStep ==
    /\ pc = "loop"
    /\ step < total_steps
    /\ branch' = "explore"
    /\ move_symbol_map # <<>>

(* An explore step counts one step and assigns chosen_move; the position, the store (its   *)
(* keys and its values), the last result of Board.move and the output stay as they were,   *)
(* and the run goes on.                                                                    *)
C14_Explore ==
    ExploreStep =>
        /\ step' = step + 1
        /\ pc' = "loop"
        /\ pos' = pos
        /\ new_pos' = new_pos /\ new_pos_move' = new_pos_move
        /\ DOMAIN Q' = DOMAIN Q
        /\ \A k \in DOMAIN Q : Q'[k] = Q[k]
        /\ stdout' = stdout
        /\ \E i \in 1..Len(move_symbol_map) : chosen_move' = move_symbol_map[i][1]

(* C14: an explore step consumes one step of the budget and changes nothing else: the      *)
(* position is unchanged, Board.move is not called, and the store keeps its key set and    *)
(* its values.                                                                             *)
C14_ExploreStepOnlyCounts == [][C14_Explore]_vars

(* C14's case: an explore step was taken after an exploit step that moved the agent away   *)
(* from the start and updated an estimate; the displacement it chose would have moved the  *)
(* agent.                                                                                  *)
C14_Witness ==
    /\ branch = "explore"
    /\ step >= 2
    /\ pos # start_pos
    /\ pos = new_pos
    /\ \E k \in DOMAIN Q : Q[k] # <<1, 1>>
    /\ Board_move(board, pos, chosen_move).value # pos

(* A step of the loop that takes the exploit branch and completes. *)
ExploitStep == branch' = "exploit" /\ step' = step + 1

(* The allowed displacements. *)
AllowedMoves == {move_symbol_map[i][1] : i \in 1..Len(move_symbol_map)}

(* An exploit step at pos with chosen displacement a, Board.move's result pos2 and second  *)
(* displacement a2 keeps every entry but the one of (pos, a) as it was; the entries it     *)
(* creates are the absent ones among (pos, m) for every allowed m and, at pos2, (pos2, m)  *)
(* for every allowed m when the second selection is greedy and (pos2, a2) alone when it    *)
(* explores; each of them holds the default 1 after the step, except (pos, a).             *)
C16_Exploit ==
    ExploitStep =>
        LET a == chosen_move'
            pos2 == new_pos'
            a2 == new_pos_move'
            created == (DOMAIN Q') \ (DOMAIN Q)
            at_pos == {<<pos, m>> : m \in AllowedMoves}
            at_pos2 == IF new_pos_branch' = "greedy"
                       THEN {<<pos2, m>> : m \in AllowedMoves}
                       ELSE {<<pos2, a2>>}
        IN  /\ new_pos_branch' \in {"greedy", "explore"}
            /\ \A k \in DOMAIN Q : k # <<pos, a>> => (k \in DOMAIN Q' /\ Q'[k] = Q[k])
            /\ created = (at_pos \cup at_pos2) \ (DOMAIN Q)
            /\ \A k \in created : k # <<pos, a>> => Q'[k] = <<1, 1>>
            /\ <<pos, a>> \in DOMAIN Q'

(* C16: an exploit step changes the value of at most one entry, that of (pos, a); every    *)
(* other entry that existed keeps its value, and the entries created are keyed at pos, for *)
(* every allowed displacement, or at the resulting position, for every allowed             *)
(* displacement when the second selection is greedy and for the selected one when it       *)
(* explores, each created with the default 1.                                              *)
C16_ExploitStepFrame == [][C16_Exploit]_vars

(* C16's case: the second exploit step of a run with four displacements moved the agent to *)
(* a cell where its exploring second selection created a single entry; the store holds two *)
(* updated estimates, the one of the first step kept by the second.                        *)
C16_Witness ==
    /\ branch = "exploit"
    /\ new_pos_branch = "explore"
    /\ step = 2
    /\ Len(move_symbol_map) = 4
    /\ Cardinality({k \in DOMAIN Q : k[1] = new_pos}) = 1
    /\ Cardinality({k \in DOMAIN Q : Q[k] # <<1, 1>>}) = 2

----------------------------------------------------------------------------
(* Claims about the estimates and the renderer's sentinel. *)

(* alpha in (0, 1] and gamma in [0, 1]. *)
C15_Params ==
    /\ ~AtMost(alpha, <<0, 1>>) /\ AtMost(alpha, <<1, 1>>)
    /\ AtMost(<<0, 1>>, gamma) /\ AtMost(gamma, <<1, 1>>)

(* The greatest of a cell's values as the renderer reads them, an absent entry as -1. *)
RenderedMaximum(store, cell, move_symbols) ==
    LET values == ValuesAt(store, cell, move_symbols, <<-1, 1>>)
    IN  values[FirstMax(values)]

(* C15: for alpha in (0, 1] and gamma in [0, 1] every estimate the store holds is at least  *)
(* 0, so above the renderer's sentinel -1; hence at a cell the greatest of the values the   *)
(* renderer reads is -1 exactly when the store has no entry for any allowed displacement    *)
(* there, and the policy printed at the end of the run shows "*" at exactly the cells,      *)
(* other than the goal, without an entry.                                                   *)
C15_EstimatesAboveSentinel ==
    C15_Params =>
        /\ \A k \in DOMAIN Q : AtMost(<<0, 1>>, Q[k])
        /\ move_symbol_map # <<>> =>
              \A c \in OnBoard(board) :
                  (RenderedMaximum(Q, c, move_symbol_map) = <<-1, 1>>)
                      <=> (HeldAt(Q, c, move_symbol_map) = {})
        /\ pc = "done" =>
              \A c \in OnBoard(board) \ {goal_pos} :
                  (SymbolAt(stdout[3], board, c) = "*") <=> (HeldAt(Q, c, move_symbol_map) = {})

(* C15's case: with alpha and gamma in their ranges an estimate was lowered to 0, the      *)
(* least value it can take; the policy was printed, with "*" at a cell without entries and  *)
(* a displacement's symbol at the cell of the estimate 0.                                  *)
C15_Witness ==
    /\ C15_Params
    /\ pc = "done"
    /\ \E k \in DOMAIN Q :
          /\ Q[k] = <<0, 1>>
          /\ k[1] # goal_pos
          /\ SymbolAt(stdout[3], board, k[1]) \notin {"*", "@"}
    /\ \E c \in OnBoard(board) \ {goal_pos} :
          /\ HeldAt(Q, c, move_symbol_map) = {}
          /\ SymbolAt(stdout[3], board, c) = "*"

----------------------------------------------------------------------------
(* Claims about the entries at the goal. *)

(* With a start position that is not the goal, the agent is never at the goal when a step  *)
(* starts and every entry keyed at the goal holds the default 1.                           *)
C17_State ==
    start_pos # goal_pos =>
        /\ pos # goal_pos
        /\ \A k \in DOMAIN Q : k[1] = goal_pos => Q[k] = <<1, 1>>

(* An exploit step that arrives at the goal updates an entry that is not at the goal, with *)
(* gamma * 1 for the value of the pair at the goal:                                        *)
(*   Q[pos, a] + alpha * (gamma * 1 - Q[pos, a]) + alpha * 100                              *)
C17_Arrival ==
    (start_pos # goal_pos /\ ExploitStep /\ new_pos' = goal_pos) =>
        LET a == chosen_move'
            current == Held(Q, <<pos, a>>)
            bootstrap == RatMul(gamma, <<1, 1>>)
        IN  /\ pos # goal_pos
            /\ Held(Q, <<new_pos', new_pos_move'>>) = <<1, 1>>
            /\ Q'[<<new_pos', new_pos_move'>>] = <<1, 1>>
            /\ Q'[<<pos, a>>] = RatAdd(RatAdd(current, RatMul(alpha, RatSub(bootstrap, current))),
                                       RatMul(alpha, <<100, 1>>))

(* C17: when the start position differs from the goal, no step starts at the goal, so no   *)
(* entry keyed at the goal is ever updated: each holds exactly the default 1, and the      *)
(* value bootstrapped from on arriving at the goal is always gamma * 1.                    *)
C17_GoalEntriesStayDefault == [](C17_State) /\ [][C17_Arrival]_vars

(* C17's case: the goal was reached twice from a start that is not the goal, the second    *)
(* time with alpha = 1 and gamma = 1/2 after a greedy second selection; all four entries   *)
(* at the goal hold 1 and the updated estimate is 1/2 + 100.                               *)
C17_Witness ==
    /\ start_pos # goal_pos
    /\ InGrid(board, start_pos)
    /\ alpha = <<1, 1>>
    /\ gamma = <<1, 2>>
    /\ step = 2
    /\ branch = "exploit"
    /\ new_pos = goal_pos
    /\ new_pos_branch = "greedy"
    /\ pos = start_pos
    /\ Cardinality({k \in DOMAIN Q : k[1] = goal_pos /\ Q[k] = <<1, 1>>}) = 4
    /\ <<start_pos, chosen_move>> \in DOMAIN Q
    /\ Q[<<start_pos, chosen_move>>] = <<201, 2>>

====
